---- MODULE Spec2Model ----
(***************************************************************************)
(* Model of run_models/scoring_methods.py: the scoring methods accuracy,   *)
(* confusion_matrix, f1_score1 and bayesian_detection_rate, and            *)
(* evaluate_model, which runs every registered scoring method.             *)
(*                                                                         *)
(* A behaviour is one call made by a client: Init draws the arguments      *)
(* y_pred, y_true and the function that is called; the actions are the     *)
(* steps of that call until it returns a value or raises.  Python floats   *)
(* are modelled as exact rationals <<numerator, denominator>> in lowest    *)
(* terms, and `/` is Python 3 true division.                               *)
(***************************************************************************)
EXTENDS Integers, Sequences, FiniteSets, TLC

\* Longest argument sequence drawn by Init.
MaxLen == 3

\* constants.UNMONITORED_LABEL: the label of the unmonitored class.
UNMONITORED_LABEL == "U"

\* The labels the arguments are drawn from: the sentinel and two monitored sites.
Labels == {UNMONITORED_LABEL, "A", "B"}

SeqsUpTo(n) == UNION {[1..m -> Labels] : m \in 0..n}

VARIABLES y_pred, y_true, entry, stack, cmpc, i, res, bdrpc, cm, k,
          evaluations, outcome, error, result

vars == <<y_pred, y_true, entry, stack, cmpc, i, res, bdrpc, cm, k,
          evaluations, outcome, error, result>>

----------------------------------------------------------------------------
(* Arithmetic of Python numbers.                                           *)

Abs(x) == IF x < 0 THEN -x ELSE x

RECURSIVE GCD(_, _)
GCD(a, b) == IF b = 0 THEN a ELSE GCD(b, a % b)

\* the rational n/d, d > 0, in lowest terms
Rat(n, d) == LET g == GCD(Abs(n), d) IN <<n \div g, d \div g>>

Zero == Rat(0, 1)
One == Rat(1, 1)

RMul(a, b) == Rat(a[1] * b[1], a[2] * b[2])
RAdd(a, b) == Rat(a[1] * b[2] + b[1] * a[2], a[2] * b[2])
RSub(a, b) == Rat(a[1] * b[2] - b[1] * a[2], a[2] * b[2])
RLe(a, b) == a[1] * b[2] <= b[1] * a[2]

\* What an expression evaluates to: a value, or the exception it raises.
Ok(v) == [err |-> "none", val |-> v]
Raises(e, placeholder) == [err |-> e, val |-> placeholder]

\* a / b on rationals: raises ZeroDivisionError when b is zero
TrueDiv(a, b) ==
    IF b[1] = 0 THEN Raises("ZeroDivisionError", Zero)
    ELSE IF b[1] > 0 THEN Ok(Rat(a[1] * b[2], a[2] * b[1]))
    ELSE Ok(Rat(-(a[1] * b[2]), -(a[2] * b[1])))

Min(a, b) == IF a < b THEN a ELSE b

----------------------------------------------------------------------------
(* The scoring methods.                                                    *)

\* check_inputs with the comparison left out
check_inputs_unchecked(yp, yt) == FALSE

\* TRUE when check_inputs raises ValueError
check_inputs(yp, yt) == Len(yp) # Len(yt)

\* accuracy counting the positions that differ
accuracy_of_misses(yp, yt) ==
    IF Len(yp) # Len(yt) THEN Raises("ValueError", Zero)
    ELSE LET correct == Cardinality({n \in 1..Min(Len(yp), Len(yt)) : yp[n] # yt[n]})
         IN  TrueDiv(Rat(correct, 1), Rat(Len(yp), 1))

accuracy(yp, yt) ==
    IF check_inputs(yp, yt) THEN Raises("ValueError", Zero)
    ELSE LET correct == Cardinality({n \in 1..Min(Len(yp), Len(yt)) : yp[n] = yt[n]})
         IN  TrueDiv(Rat(correct, 1), Rat(Len(yp), 1))

\* res = {'TP': 0, 'TN': 0, 'FP': 0, 'FN': 0}
NoCounts == [TP |-> 0, TN |-> 0, FP |-> 0, FN |-> 0]

\* the loop body choosing between FP and FN by the predicted label
cm_count_by_prediction(r, yp, yt, n) ==
    IF yp[n] = yt[n]
    THEN IF yp[n] = UNMONITORED_LABEL
         THEN [r EXCEPT !.TN = @ + 1]
         ELSE [r EXCEPT !.TP = @ + 1]
    ELSE IF yp[n] # UNMONITORED_LABEL
         THEN [r EXCEPT !.FP = @ + 1]
         ELSE [r EXCEPT !.FN = @ + 1]

\* the loop body with the inner else of the correct branch missing
cm_count_fallthrough(r, yp, yt, n) ==
    IF yp[n] = yt[n]
    THEN IF yp[n] = UNMONITORED_LABEL
         THEN [r EXCEPT !.TN = @ + 1, !.TP = @ + 1]
         ELSE [r EXCEPT !.TP = @ + 1]
    ELSE IF yt[n] = UNMONITORED_LABEL
         THEN [r EXCEPT !.FP = @ + 1]
         ELSE [r EXCEPT !.FN = @ + 1]

\* the loop body reading the true label of the first sample
cm_count_first_label(r, yp, yt, n) ==
    IF yp[n] = yt[1]
    THEN IF yp[n] = UNMONITORED_LABEL
         THEN [r EXCEPT !.TN = @ + 1]
         ELSE [r EXCEPT !.TP = @ + 1]
    ELSE IF yt[1] = UNMONITORED_LABEL
         THEN [r EXCEPT !.FP = @ + 1]
         ELSE [r EXCEPT !.FN = @ + 1]

\* One iteration of confusion_matrix's loop, at the (1-based) index n.
cm_count(r, yp, yt, n) ==
    IF yp[n] = yt[n]
    THEN IF yp[n] = UNMONITORED_LABEL
         THEN [r EXCEPT !.TN = @ + 1]
         ELSE [r EXCEPT !.TP = @ + 1]
    ELSE IF yt[n] = UNMONITORED_LABEL
         THEN [r EXCEPT !.FP = @ + 1]
         ELSE [r EXCEPT !.FN = @ + 1]

\* The loop of confusion_matrix over the first n indices.
RECURSIVE cm_loop(_, _, _)
cm_loop(yp, yt, n) ==
    IF n = 0 THEN NoCounts ELSE cm_count(cm_loop(yp, yt, n - 1), yp, yt, n)

\* confusion_matrix as a function of its arguments
confusion_matrix(yp, yt) ==
    IF check_inputs(yp, yt) THEN Raises("ValueError", NoCounts)
    ELSE Ok(cm_loop(yp, yt, Len(yp)))

Range(s) == {s[n] : n \in 1..Len(s)}

RECURSIVE RSum(_, _)
RSum(f, S) ==
    IF S = {} THEN Zero
    ELSE LET c == CHOOSE x \in S : TRUE IN RAdd(f[c], RSum(f, S \ {c}))

\* sklearn.metrics.f1_score(y_true, y_pred, average='weighted')
f1_score(yt, yp) ==
    LET N == Len(yt)
        classes == Range(yt) \cup Range(yp)
        tp(c) == Cardinality({n \in 1..N : yt[n] = c /\ yp[n] = c})
        fp(c) == Cardinality({n \in 1..N : yt[n] # c /\ yp[n] = c})
        fn(c) == Cardinality({n \in 1..N : yt[n] = c /\ yp[n] # c})
        f(c) == IF 2 * tp(c) + fp(c) + fn(c) = 0 THEN Zero
                ELSE Rat(2 * tp(c), 2 * tp(c) + fp(c) + fn(c))
        weighted == [c \in classes |-> RMul(Rat(tp(c) + fn(c), 1), f(c))]
    IN  IF N = 0 THEN Zero
        ELSE RMul(RSum(weighted, classes), Rat(1, N))

f1_score1(yp, yt) ==
    IF check_inputs(yp, yt) THEN Raises("ValueError", Zero)
    ELSE Ok(f1_score(yt, yp))

\* The locals of bayesian_detection_rate, as expressions of cm and y_true.
PrM(yt) ==
    TrueDiv(Rat(Cardinality({n \in 1..Len(yt) : yt[n] # UNMONITORED_LABEL}), 1),
            Rat(Len(yt), 1))

\* PrU with the operands of the subtraction swapped
PrU_swapped(yt) == RSub(PrM(yt).val, One)

PrU(yt) == RSub(One, PrM(yt).val)

\* TPR over the monitored samples instead of all samples
TPR_per_class(c, yt) ==
    TrueDiv(Rat(c.TP, 1),
            Rat(Cardinality({n \in 1..Len(yt) : yt[n] # UNMONITORED_LABEL}), 1))

TPR(c, yt) == TrueDiv(Rat(c.TP, 1), Rat(Len(yt), 1))

FPR(c, yt) == TrueDiv(Rat(c.FP, 1), Rat(Len(yt), 1))

nominator(c, yt) == RMul(TPR(c, yt).val, PrM(yt).val)

denominator(c, yt) == RAdd(nominator(c, yt), RMul(FPR(c, yt).val, PrU(yt)))

\* the statements after the call with the try block around all of them
bdr_rest_all_tried(c, yt) ==
    IF PrM(yt).err # "none" \/ TPR(c, yt).err # "none" \/ FPR(c, yt).err # "none"
    THEN Ok(Zero)
    ELSE LET q == TrueDiv(nominator(c, yt), denominator(c, yt))
         IN  IF q.err # "none" THEN Ok(Zero) ELSE q

\* bayesian_detection_rate after its call of confusion_matrix returned c
bdr_rest(c, yt) ==
    IF PrM(yt).err # "none" THEN Raises(PrM(yt).err, Zero)
    ELSE IF TPR(c, yt).err # "none" THEN Raises(TPR(c, yt).err, Zero)
    ELSE IF FPR(c, yt).err # "none" THEN Raises(FPR(c, yt).err, Zero)
    ELSE LET q == TrueDiv(nominator(c, yt), denominator(c, yt))
         IN  IF q.err # "none" THEN Ok(Zero) ELSE q

\* bayesian_detection_rate as a function of its arguments
bayesian_detection_rate(yp, yt) ==
    LET c == confusion_matrix(yp, yt)
    IN  IF c.err # "none" THEN Raises(c.err, Zero) ELSE bdr_rest(c.val, yt)

\* The registry, in the order the dictionary is iterated.
get_scoring_methods ==
    << [name |-> "accuracy", fn |-> "accuracy"],
       [name |-> "confusion-matrix", fn |-> "confusion_matrix"],
       [name |-> "f1-score", fn |-> "f1_score1"],
       [name |-> "bayesian_detection_rate", fn |-> "bayesian_detection_rate"] >>

SCORING_METHODS == get_scoring_methods

MethodNames == {SCORING_METHODS[n].name : n \in 1..Len(SCORING_METHODS)}

Functions ==
    {"accuracy", "confusion_matrix", "f1_score1", "bayesian_detection_rate",
     "evaluate_model"}

----------------------------------------------------------------------------
(* The call: its frames, and how a value or an exception leaves a frame.   *)

Top == stack[Len(stack)]
Callers == SubSeq(stack, 1, Len(stack) - 1)

\* evaluate_model swallowing the exception of a scoring method
catches_in_evaluate(f) == f = "evaluate_model"

\* TRUE when a frame of function f catches an exception raised by a call it
\* made.  No call in the module is inside a try block.
catches(f) == FALSE

Init ==
    /\ y_pred \in SeqsUpTo(MaxLen)
    /\ y_true \in SeqsUpTo(MaxLen)
    /\ entry \in Functions
    /\ stack = <<entry>>
    /\ cmpc = "enter"
    /\ i = 0
    /\ res = NoCounts
    /\ bdrpc = "call"
    /\ cm = NoCounts
    /\ k = 0
    /\ evaluations = <<>>
    /\ outcome = "running"
    /\ error = "none"
    /\ result = "None"

\* The top frame returns v.
Return(v) ==
    /\ stack' = Callers
    /\ error' = error
    /\ IF Callers = <<>>
       THEN /\ outcome' = "returned"
            /\ result' = v
            /\ UNCHANGED <<evaluations, k, cm, bdrpc>>
       ELSE IF Callers[Len(Callers)] = "evaluate_model"
       THEN /\ evaluations' = [n \in DOMAIN evaluations \cup {SCORING_METHODS[k + 1].name} |->
                                 IF n = SCORING_METHODS[k + 1].name THEN v ELSE evaluations[n]]
            /\ k' = k + 1
            /\ UNCHANGED <<outcome, result, cm, bdrpc>>
       ELSE /\ cm' = v
            /\ bdrpc' = "compute"
            /\ UNCHANGED <<outcome, result, evaluations, k>>

\* The top frame raises e.
Raise(e) ==
    /\ error' = e
    /\ IF \E n \in 1..Len(Callers) : catches(Callers[n])
       THEN LET n == CHOOSE m \in 1..Len(Callers) :
                        /\ catches(Callers[m])
                        /\ \A m2 \in (m + 1)..Len(Callers) : ~catches(Callers[m2])
            IN  /\ stack' = SubSeq(stack, 1, n)
                /\ IF Callers[n] = "evaluate_model"
                   THEN k' = k + 1 /\ bdrpc' = bdrpc
                   ELSE k' = k /\ bdrpc' = "compute"
                /\ UNCHANGED <<outcome, result, evaluations, cm>>
       ELSE /\ stack' = <<>>
            /\ outcome' = "raised"
            /\ UNCHANGED <<result, evaluations, k, cm, bdrpc>>

Finish(r) == IF r.err = "none" THEN Return(r.val) ELSE Raise(r.err)

Running(f) == stack # <<>> /\ Top = f

\* accuracy(y_pred, y_true)
call_accuracy ==
    /\ Running("accuracy")
    /\ Finish(accuracy(y_pred, y_true))
    /\ UNCHANGED <<y_pred, y_true, entry, cmpc, i, res>>

\* confusion_matrix: check_inputs and the initial res
cm_enter ==
    /\ Running("confusion_matrix")
    /\ cmpc = "enter"
    /\ IF check_inputs(y_pred, y_true)
       THEN /\ Raise("ValueError")
            /\ UNCHANGED <<cmpc, i, res>>
       ELSE /\ cmpc' = "loop"
            /\ i' = 0
            /\ res' = NoCounts
            /\ UNCHANGED <<stack, bdrpc, cm, k, evaluations, outcome, error, result>>
    /\ UNCHANGED <<y_pred, y_true, entry>>

\* confusion_matrix: one iteration of the loop
cm_step ==
    /\ Running("confusion_matrix")
    /\ cmpc = "loop"
    /\ i < Len(y_pred)
    /\ IF i + 1 > Len(y_true)
       THEN /\ Raise("IndexError")
            /\ UNCHANGED <<i, res>>
       ELSE /\ res' = cm_count(res, y_pred, y_true, i + 1)
            /\ i' = i + 1
            /\ UNCHANGED <<stack, bdrpc, cm, k, evaluations, outcome, error, result>>
    /\ UNCHANGED <<y_pred, y_true, entry, cmpc>>

\* confusion_matrix: return res
cm_return ==
    /\ Running("confusion_matrix")
    /\ cmpc = "loop"
    /\ i = Len(y_pred)
    /\ Return(res)
    /\ cmpc' = "enter"
    /\ UNCHANGED <<y_pred, y_true, entry, i, res>>

\* f1_score1(y_pred, y_true)
call_f1_score1 ==
    /\ Running("f1_score1")
    /\ Finish(f1_score1(y_pred, y_true))
    /\ UNCHANGED <<y_pred, y_true, entry, cmpc, i, res>>

\* bayesian_detection_rate: cm = confusion_matrix(y_pred, y_true)
bdr_call ==
    /\ Running("bayesian_detection_rate")
    /\ bdrpc = "call"
    /\ stack' = Append(stack, "confusion_matrix")
    /\ bdrpc' = "wait"
    /\ UNCHANGED <<y_pred, y_true, entry, cmpc, i, res, cm, k, evaluations,
                   outcome, error, result>>

\* bayesian_detection_rate: the statements after the call
bdr_compute ==
    /\ Running("bayesian_detection_rate")
    /\ bdrpc = "compute"
    /\ Finish(bdr_rest(cm, y_true))
    /\ UNCHANGED <<y_pred, y_true, entry, cmpc, i, res>>

\* evaluate_model: call the next scoring method
eval_call ==
    /\ Running("evaluate_model")
    /\ k < Len(SCORING_METHODS)
    /\ stack' = Append(stack, SCORING_METHODS[k + 1].fn)
    /\ bdrpc' = "call"
    /\ UNCHANGED <<y_pred, y_true, entry, cmpc, i, res, cm, k, evaluations,
                   outcome, error, result>>

\* evaluate_model: return evaluations
eval_return ==
    /\ Running("evaluate_model")
    /\ k = Len(SCORING_METHODS)
    /\ Return(evaluations)
    /\ UNCHANGED <<y_pred, y_true, entry, cmpc, i, res>>

Next ==
    \/ call_accuracy
    \/ cm_enter
    \/ cm_step
    \/ cm_return
    \/ call_f1_score1
    \/ bdr_call
    \/ bdr_compute
    \/ eval_call
    \/ eval_return

Spec == Init /\ [][Next]_vars

----------------------------------------------------------------------------
(* Properties.                                                             *)

N == Len(y_true)
SameLength == Len(y_pred) = Len(y_true)
Finished == stack = <<>>
Returned(f) == entry = f /\ outcome = "returned"
Raised(f, e) == entry = f /\ outcome = "raised" /\ error = e
InLoop == stack # <<>> /\ Top = "confusion_matrix" /\ cmpc = "loop"

\* the monitored samples of y_true
Monitored == {n \in 1..N : y_true[n] # UNMONITORED_LABEL}

\* the four counts over the first n samples, by their definition
CountsOver(n) ==
    [TP |-> Cardinality({m \in 1..n : y_pred[m] = y_true[m] /\ y_true[m] # UNMONITORED_LABEL}),
     TN |-> Cardinality({m \in 1..n : y_pred[m] = y_true[m] /\ y_true[m] = UNMONITORED_LABEL}),
     FP |-> Cardinality({m \in 1..n : y_pred[m] # y_true[m] /\ y_true[m] = UNMONITORED_LABEL}),
     FN |-> Cardinality({m \in 1..n : y_pred[m] # y_true[m] /\ y_true[m] # UNMONITORED_LABEL})]

Total(r) == r.TP + r.TN + r.FP + r.FN

TypeOK ==
    /\ y_pred \in SeqsUpTo(MaxLen + 1)
    /\ y_true \in SeqsUpTo(MaxLen + 1)
    /\ entry \in Functions
    /\ \A n \in 1..Len(stack) : stack[n] \in Functions
    /\ cmpc \in {"enter", "loop"}
    /\ i \in 0..Len(y_pred)
    /\ bdrpc \in {"call", "wait", "compute"}
    /\ k \in 0..Len(SCORING_METHODS)
    /\ DOMAIN evaluations \subseteq MethodNames
    /\ outcome \in {"running", "returned", "raised"}
    /\ error \in {"none", "ValueError", "ZeroDivisionError", "IndexError"}

\* C1: confusion_matrix returns TN, TP, FP, FN as the numbers of indices that
\* are correct with an unmonitored true label, correct with a monitored true
\* label, wrong with an unmonitored true label, wrong with a monitored true
\* label; the loop holds these counts for the indices it has processed, so a
\* wrong sample goes to FP or FN by its true label alone.
C1_CountsByTrueLabel ==
    /\ InLoop => res = CountsOver(i)
    /\ Returned("confusion_matrix") => result = CountsOver(N)

C1_Witness ==
    /\ Returned("confusion_matrix")
    /\ y_true = <<"U", "U", "A">>
    /\ y_pred = <<"A", "B", "B">>
    /\ result.FP = 2
    /\ result.FN = 1

\* C2: the four counters are non-negative and sum to the number of indices
\* processed so far, and the returned counts sum to N (also when N = 0).
C2_CountsSumToN ==
    /\ InLoop =>
         /\ Total(res) = i
         /\ res.TP >= 0 /\ res.TN >= 0 /\ res.FP >= 0 /\ res.FN >= 0
    /\ Returned("confusion_matrix") =>
         /\ Total(result) = N
         /\ result.TP >= 0 /\ result.TN >= 0 /\ result.FP >= 0 /\ result.FN >= 0

C2_Witness ==
    /\ InLoop
    /\ i = 2
    /\ N = 3
    /\ res.TN = 1
    /\ res.TP = 1

\* C3: for N >= 1 accuracy returns (TP + TN) / N for the counts that
\* confusion_matrix returns on the same arguments.
C3_AccuracyFromCounts ==
    /\ (Returned("accuracy") /\ N >= 1) =>
         LET c == cm_loop(y_pred, y_true, N) IN result = Rat(c.TP + c.TN, N)
    /\ (Returned("evaluate_model") /\ N >= 1) =>
         result["accuracy"] =
            Rat(result["confusion-matrix"].TP + result["confusion-matrix"].TN, N)

C3_Witness ==
    /\ Returned("evaluate_model")
    /\ N = 3
    /\ result["accuracy"] = Rat(2, 3)
    /\ result["confusion-matrix"].TP = 1
    /\ result["confusion-matrix"].TN = 1

\* C4: with arguments of different lengths each of accuracy, confusion_matrix,
\* f1_score1 and bayesian_detection_rate raises ValueError, before anything is
\* counted or divided: no other error occurs and no value is returned, also
\* when one of the two arguments is empty.
C4_LengthMismatch ==
    (/\ Len(y_pred) # Len(y_true)
     /\ entry \in {"accuracy", "confusion_matrix", "f1_score1", "bayesian_detection_rate"}) =>
        /\ i = 0
        /\ res = NoCounts
        /\ cmpc = "enter"
        /\ outcome # "returned"
        /\ error \in {"none", "ValueError"}
        /\ Finished => outcome = "raised" /\ error = "ValueError"

C4_Witness ==
    /\ Raised("bayesian_detection_rate", "ValueError")
    /\ y_pred = <<>>
    /\ Len(y_true) = 2

\* the closed form of the Bayesian detection rate for the counts c
ClosedFormBDR(c) ==
    LET M == Cardinality(Monitored)
        d == c.TP * M + c.FP * (N - M)
    IN  IF d = 0 THEN Zero ELSE Rat(c.TP * M, d)

\* C5: for N >= 1 bayesian_detection_rate returns TP*M / (TP*M + FP*(N-M)),
\* with TP and FP the counts of confusion_matrix and M the number of monitored
\* true labels, and returns 0 without raising when that denominator is zero.
C5_BDRClosedForm ==
    /\ (entry = "bayesian_detection_rate" /\ SameLength /\ N >= 1 /\ Finished) =>
         /\ outcome = "returned"
         /\ cm = CountsOver(N)
         /\ result = ClosedFormBDR(cm)
    /\ (Returned("evaluate_model") /\ N >= 1) =>
         result["bayesian_detection_rate"] = ClosedFormBDR(result["confusion-matrix"])

C5_Witness ==
    /\ Returned("bayesian_detection_rate")
    /\ y_true = <<"A", "U", "U">>
    /\ y_pred = <<"A", "A", "U">>
    /\ result = Rat(1, 3)

C5_WitnessDegenerate ==
    /\ Returned("bayesian_detection_rate")
    /\ y_true = <<"U", "U">>
    /\ y_pred = <<"U", "U">>
    /\ result = Zero

InUnit(q) == RLe(Zero, q) /\ RLe(q, One)

\* C6: for N >= 1 accuracy, TPR, FPR, PrM, PrU and the Bayesian detection rate
\* lie in [0, 1], and 0 <= nominator <= denominator.
C6_RatesInUnitInterval ==
    /\ (Returned("accuracy") /\ N >= 1) => InUnit(result)
    /\ (entry = "bayesian_detection_rate" /\ bdrpc = "compute" /\ N >= 1) =>
         /\ InUnit(PrM(y_true).val)
         /\ InUnit(PrU(y_true))
         /\ InUnit(TPR(cm, y_true).val)
         /\ InUnit(FPR(cm, y_true).val)
         /\ RLe(Zero, nominator(cm, y_true))
         /\ RLe(nominator(cm, y_true), denominator(cm, y_true))
    /\ (Returned("bayesian_detection_rate") /\ N >= 1) => InUnit(result)
    /\ (Returned("evaluate_model") /\ N >= 1) =>
         /\ InUnit(result["accuracy"])
         /\ InUnit(result["bayesian_detection_rate"])

C6_Witness ==
    /\ Returned("evaluate_model")
    /\ y_true = <<"A", "U">>
    /\ y_pred = <<"A", "A">>
    /\ result["accuracy"] = Rat(1, 2)
    /\ result["bayesian_detection_rate"] = Rat(1, 2)

\* the scoring methods that raise on the arguments
Failing ==
    {n \in 1..Len(SCORING_METHODS) :
        \/ SCORING_METHODS[n].fn = "accuracy" /\ accuracy(y_pred, y_true).err # "none"
        \/ SCORING_METHODS[n].fn = "confusion_matrix" /\ confusion_matrix(y_pred, y_true).err # "none"
        \/ SCORING_METHODS[n].fn = "f1_score1" /\ f1_score1(y_pred, y_true).err # "none"
        \/ SCORING_METHODS[n].fn = "bayesian_detection_rate"
              /\ bayesian_detection_rate(y_pred, y_true).err # "none"}

\* C7: evaluate_model returns a mapping with exactly the four keys, each the
\* value of its scoring method on (y_pred, y_true); if a scoring method raises,
\* evaluate_model raises that error and returns nothing.
C7_AllOrNothing ==
    entry = "evaluate_model" =>
        /\ outcome = "returned" =>
             /\ DOMAIN result =
                  {"accuracy", "confusion-matrix", "f1-score", "bayesian_detection_rate"}
             /\ result["accuracy"] = accuracy(y_pred, y_true).val
             /\ result["confusion-matrix"] = CountsOver(N)
             /\ result["f1-score"] = f1_score(y_true, y_pred)
             /\ result["bayesian_detection_rate"] = bayesian_detection_rate(y_pred, y_true).val
             /\ Failing = {}
        /\ error # "none" => outcome = "raised" /\ Finished
        /\ (Finished /\ Failing # {}) => outcome = "raised"
        /\ (Finished /\ Failing = {}) => outcome = "returned"

C7_Witness ==
    /\ Returned("evaluate_model")
    /\ N = 2
    /\ Cardinality(DOMAIN result) = 4

C7_WitnessRaised ==
    /\ Raised("evaluate_model", "ValueError")
    /\ DOMAIN evaluations = {}

\* the permutations of 1..n
Perms(n) == {p \in [1..n -> 1..n] : \A a, b \in 1..n : p[a] = p[b] => a = b}

Permuted(s, p) == [n \in 1..Len(s) |-> s[p[n]]]

\* C8: permuting y_pred and y_true by the same permutation of the indices
\* leaves the results of accuracy, confusion_matrix and
\* bayesian_detection_rate unchanged.
C8_OrderIndependent ==
    /\ Returned("accuracy") =>
         \A p \in Perms(N) :
            accuracy(Permuted(y_pred, p), Permuted(y_true, p)) = Ok(result)
    /\ Returned("confusion_matrix") =>
         \A p \in Perms(N) :
            confusion_matrix(Permuted(y_pred, p), Permuted(y_true, p)) = Ok(result)
    /\ Returned("bayesian_detection_rate") =>
         \A p \in Perms(N) :
            bayesian_detection_rate(Permuted(y_pred, p), Permuted(y_true, p)) = Ok(result)

C8_Witness ==
    /\ Returned("confusion_matrix")
    /\ y_pred = <<"A", "U", "B">>
    /\ y_true = <<"A", "U", "U">>
    /\ result = [TP |-> 1, TN |-> 1, FP |-> 1, FN |-> 0]

\* C9: with both arguments empty accuracy raises ZeroDivisionError, and so
\* does bayesian_detection_rate after confusion_matrix returned (its fallback
\* to 0 does not cover the divisions by N); evaluate_model raises too.
C9_EmptyInputDivides ==
    (y_pred = <<>> /\ y_true = <<>> /\ Finished) =>
        /\ entry = "accuracy" => outcome = "raised" /\ error = "ZeroDivisionError"
        /\ entry = "bayesian_detection_rate" =>
             outcome = "raised" /\ error = "ZeroDivisionError" /\ bdrpc = "compute"
        /\ entry = "evaluate_model" => outcome = "raised" /\ error = "ZeroDivisionError"

C9_Witness ==
    /\ Raised("bayesian_detection_rate", "ZeroDivisionError")
    /\ y_pred = <<>>
    /\ y_true = <<>>
    /\ bdrpc = "compute"

\* C10: every index that increments FN has a monitored true label and the
\* unmonitored label as its prediction, and every index that increments FP has
\* the unmonitored label as its true label and a monitored prediction.
C10_FNIsPredictedUnmonitored ==
    [][/\ res'.FN = res.FN + 1 =>
            /\ y_true[i'] # UNMONITORED_LABEL
            /\ y_pred[i'] = UNMONITORED_LABEL
       /\ res'.FP = res.FP + 1 =>
            /\ y_true[i'] = UNMONITORED_LABEL
            /\ y_pred[i'] # UNMONITORED_LABEL]_vars

====
